---- MODULE Spec2Model ----
(***************************************************************************)
(* Model of the two command line tools of github-issue-creator:            *)
(*   src/issue-analyzer/github-issues-analyzer.py  (fetch, analyze, report)*)
(*   src/issue-creator/github-issue-creator.py     (bulk issue creation)   *)
(*                                                                         *)
(* Time is scaled down: a wire timestamp "%Y-%m-%dT%H:%M:%SZ" is the pair  *)
(* <<day, second-of-day>>, a datetime is the integer day*DayLen + second.  *)
(* A missing (None or "") timestamp is <<>>; a string strptime refuses is  *)
(* any other tuple that is not a pair of a day and a second of the day.    *)
(***************************************************************************)
EXTENDS Integers, Sequences, FiniteSets, TLC

VARIABLES
    args,          \* analyzer main: the parsed command line
    pc,            \* analyzer: position of control
    outcome,       \* analyzer main: how the run ended ("running" until then)
    since_date,    \* get_closed_issues: since_date, a datetime
    until_date,    \* get_closed_issues: until_date, <<>> for None or <<datetime>>
    page,          \* get_closed_issues: page counter
    issues,        \* get_closed_issues: the accumulated list
    page_issues,   \* get_closed_issues: body of the last 200 response
    requests,      \* number of GET requests issued to the issues endpoint
    stop,          \* get_closed_issues: how the while loop was left
    reached,       \* get_closed_issues: records of page_issues the for loop got to
    analysis,      \* result of analyze_issues, <<>> while there is none
    report,        \* what generate_report has put on stdout or in a file
    listing,       \* the server's whole listing, when it is fixed before the fetch
    cargs,         \* creator main: command line, config file, token, input lines
    cpc,           \* creator: position of control
    dry_run,       \* creator main: dry_run
    existing_titles, \* creator: the set get_existing_issue_titles builds
    cpage,         \* get_existing_issue_titles: page counter
    line_no,       \* creator main: the next line of the input file
    remote,        \* the open issues of the repository, in listing order (titles)
    gets,          \* creator: GET requests issued
    posts          \* creator: titles of the POST requests issued

analyzerVars == <<args, pc, outcome, since_date, until_date, page, issues,
                  page_issues, requests, stop, reached, analysis, report, listing>>
creatorVars == <<cargs, cpc, dry_run, existing_titles, cpage, line_no, remote,
                 gets, posts>>
vars == <<analyzerVars, creatorVars>>

---------------------------------------------------------------------------
(* Bounds and input domains *)

MaxPages == 2            \* pages the server is asked for at most

\* per_page = 100 in the code, scaled down
per_page == 2

Days == {0, 1}
Seconds == {0, 1}
DayLen == Cardinality(Seconds)
Times == {d * DayLen + s : d \in Days, s \in Seconds}

Null == <<>>
MalformedStamp == <<0, DayLen>>
TimeStrs == {<<d, s>> : d \in Days, s \in Seconds}
ClosedAtVals == {Null, MalformedStamp} \cup TimeStrs

Logins == {"alice", "bob"}

\* the elements of a list
Range(q) == {q[i] : i \in 1..Len(q)}

\* the lists over S of length at most n
RECURSIVE SeqsUpTo(_, _)
SeqsUpTo(S, n) ==
    IF n = 0 THEN {<<>>}
    ELSE LET shorter == SeqsUpTo(S, n - 1)
         IN shorter \cup {Append(q, x) : q \in {p \in shorter : Len(p) = n - 1}, x \in S}

---------------------------------------------------------------------------
(* Timestamps *)

\* datetime.strptime(s, '%Y-%m-%dT%H:%M:%SZ') succeeds
WellFormed(s) == Len(s) = 2 /\ s[1] \in Nat /\ s[2] \in Seconds

\* its value when it succeeds
Strptime(s) == s[1] * DayLen + s[2]

\* Python truth value of issue.get('closed_at')
Truthy(s) == s # Null

---------------------------------------------------------------------------
(* Issue records as the listing endpoint returns them.  pull_request is    *)
(* the presence of the 'pull_request' key.  The API sets closed_at exactly *)
(* on closed issues; the model also admits a closed record whose closed_at *)
(* is missing or malformed.                                                *)

IssueRecords(labelSets, assigneeSets, authors, createdSet) ==
    {r \in [pull_request : BOOLEAN, state : {"open", "closed"},
            closed_at : ClosedAtVals, created_at : createdSet,
            labels : labelSets, assignees : assigneeSets, user : authors] :
        r.state = "open" => r.closed_at = Null}

\* the records the fetch loop is fed with
FetchRecords == IssueRecords({<<>>}, {<<>>}, {"alice"}, {<<0, 0>>})

\* what the server sends for the state parameter
ServerRecords(R, st) == {r \in R : st = "all" \/ r.state = st}

---------------------------------------------------------------------------
(* get_closed_issues *)

\* InRange without the upper bound
InRangeNoUntil(closed_date, since, until) == closed_date >= since

\* the date test of one record
InRange(closed_date, since, until) ==
    closed_date >= since /\ (until = <<>> \/ closed_date <= until[1])

\* the for loop over one page: the accepted records, how many records were
\* reached, and whether strptime raised
RECURSIVE FilterLoop(_, _, _, _, _)
FilterLoop(recs, since, until, acc, n) ==
    IF recs = <<>> THEN [raised |-> FALSE, accepted |-> acc, examined |-> n]
    ELSE LET issue == Head(recs)
             rest == Tail(recs)
         IN IF issue.pull_request THEN FilterLoop(rest, since, until, acc, n + 1)
            ELSE IF ~Truthy(issue.closed_at)
                 THEN FilterLoop(rest, since, until, acc, n + 1)
            ELSE IF ~WellFormed(issue.closed_at)
                 THEN [raised |-> TRUE, accepted |-> acc, examined |-> n + 1]
            ELSE IF InRange(Strptime(issue.closed_at), since, until)
                 THEN FilterLoop(rest, since, until, Append(acc, issue), n + 1)
            ELSE FilterLoop(rest, since, until, acc, n + 1)

\* LastCheck without the early termination
LastCheckNoBreak(body, since) ==
    LET last_closed == body[Len(body)].closed_at
    IN IF Truthy(last_closed) /\ ~WellFormed(last_closed) THEN "raise" ELSE "continue"

\* the check after the for loop, were it to stop on a last record closed at
\* `since` as well
LastCheckInclusive(body, since) ==
    LET last_closed == body[Len(body)].closed_at
    IN IF ~Truthy(last_closed) THEN "continue"
       ELSE IF ~WellFormed(last_closed) THEN "raise"
       ELSE IF Strptime(last_closed) <= since THEN "break"
       ELSE "continue"

\* the check after the for loop: "raise", "break" or "continue"
LastCheck(body, since) ==
    LET last_closed == body[Len(body)].closed_at
    IN IF ~Truthy(last_closed) THEN "continue"
       ELSE IF ~WellFormed(last_closed) THEN "raise"
       ELSE IF Strptime(last_closed) < since THEN "break"
       ELSE "continue"

\* one iteration of the while loop: one GET with the state parameter `state`
\* and all that follows from it
FetchPage(R, state) ==
    /\ pc = "fetching"
    /\ page <= MaxPages
    /\ requests' = requests + 1
    /\ \/ \* a response whose status is not 200
          /\ stop' = "status"
          /\ pc' = "fetched"
          /\ UNCHANGED <<page, issues, page_issues, reached>>
       \/ \* 200 with an empty list
          /\ stop' = "empty"
          /\ pc' = "fetched"
          /\ page_issues' = <<>>
          /\ reached' = 0
          /\ UNCHANGED <<page, issues>>
       \/ \* 200 with records
          \E body \in SeqsUpTo(ServerRecords(R, state), per_page) \ {<<>>} :
             LET r == FilterLoop(body, since_date, until_date, <<>>, 0)
                 after == IF r.raised THEN "raise" ELSE LastCheck(body, since_date)
             IN /\ page_issues' = body
                /\ reached' = r.examined
                /\ issues' = issues \o r.accepted
                /\ page' = IF r.raised THEN page ELSE page + 1
                /\ stop' = CASE after = "raise" -> "raise"
                             [] after = "break" -> "older"
                             [] OTHER -> "none"
                /\ pc' = CASE after = "raise" -> "raised"
                           [] after = "break" -> "fetched"
                           [] OTHER -> "fetching"
    /\ UNCHANGED <<args, outcome, since_date, until_date, analysis, report>>
    /\ UNCHANGED <<listing, creatorVars>>

---------------------------------------------------------------------------
(* analyze_issues.  A dict is a function on the keys it holds (a missing   *)
(* key is a key outside its DOMAIN), <<>> is the empty dict.               *)

\* d[k] += 1 on a defaultdict(int) or a Counter
Inc(d, k) == IF k \in DOMAIN d THEN [d EXCEPT ![k] = @ + 1] ELSE d @@ (k :> 1)

RECURSIVE IncAll(_, _)
IncAll(d, keys) == IF keys = <<>> THEN d ELSE IncAll(Inc(d, Head(keys)), Tail(keys))

\* alphabetical rank of the label names of the model
LabelRank == ("bug" :> 1) @@ ("ui" :> 2)

RECURSIVE Insert(_, _)
Insert(x, sorted) ==
    IF sorted = <<>> THEN <<x>>
    ELSE IF LabelRank[x] <= LabelRank[Head(sorted)] THEN <<x>> \o sorted
    ELSE <<Head(sorted)>> \o Insert(x, Tail(sorted))

\* sorted(issue_labels)
RECURSIVE Sorted(_)
Sorted(labels) == IF labels = <<>> THEN <<>> ELSE Insert(Head(labels), Sorted(Tail(labels)))

\* (closed_at - created_at).days: whole days, rounded down
DaysBetween(created, closed) == (closed - created) \div DayLen

\* closed_at.strftime('%Y-%m') and ('%Y-W%U') on the scaled calendar:
\* a month is two days, a week is one
MonthKey(t) == <<"M", (t \div DayLen) \div 2>>
WeekKey(t) == <<"W", t \div DayLen>>

\* round(total_days / n, 2) in hundredths, to the nearest, ties to even
RoundedAverage(total_days, n) ==
    LET num == 100 * total_days
        q == num \div n
        twice == 2 * (num % n)
    IN IF twice < n THEN q
       ELSE IF twice > n THEN q + 1
       ELSE IF q % 2 = 0 THEN q ELSE q + 1

\* lines 165-167
CountCombination(combos, issue_labels) ==
    IF issue_labels # <<>> THEN Inc(combos, Sorted(issue_labels)) ELSE combos

\* lines 170-175, with the "unassigned" bucket forgotten
CountAssigneesNoDefault(by_assignee, assignees) == IncAll(by_assignee, assignees)

\* lines 170-175
CountAssignees(by_assignee, assignees) ==
    IF assignees # <<>> THEN IncAll(by_assignee, assignees)
    ELSE Inc(by_assignee, "unassigned")

EmptyAnalysis(n) ==
    [total_count |-> n, by_label |-> <<>>, by_assignee |-> <<>>, by_author |-> <<>>,
     by_month |-> <<>>, by_week |-> <<>>, labels_combinations |-> <<>>,
     avg_days_to_close |-> 0, issues_detail |-> <<>>, total_days |-> 0]

\* the body of the for loop; total_days is the local of that name
AnalyzeOne(a, issue) ==
    LET created_at == Strptime(issue.created_at)
        closed_at == Strptime(issue.closed_at)
        days_to_close == DaysBetween(created_at, closed_at)
        issue_labels == issue.labels
        author == issue.user
    IN [a EXCEPT
          !.total_days = @ + days_to_close,
          !.by_month = Inc(@, MonthKey(closed_at)),
          !.by_week = Inc(@, WeekKey(closed_at)),
          !.by_label = IncAll(@, issue_labels),
          !.labels_combinations = CountCombination(@, issue_labels),
          !.by_assignee = CountAssignees(@, issue.assignees),
          !.by_author = Inc(@, author),
          !.issues_detail = Append(@,
              [author |-> author, assignees |-> issue.assignees,
               labels |-> issue_labels, created_at |-> issue.created_at,
               closed_at |-> issue.closed_at, days_to_close |-> days_to_close,
               state |-> issue.state])]

RECURSIVE AnalyzeLoop(_, _)
AnalyzeLoop(a, list) ==
    IF list = <<>> THEN a ELSE AnalyzeLoop(AnalyzeOne(a, Head(list)), Tail(list))

\* analyze_issues(issues); avg_days_to_close is in hundredths of a day
analyze_issues(list) ==
    LET a == AnalyzeLoop(EmptyAnalysis(Len(list)), list)
    IN IF Len(list) > 0
       THEN [a EXCEPT !.avg_days_to_close = RoundedAverage(a.total_days, Len(list))]
       ELSE a

---------------------------------------------------------------------------
(* generate_report *)

Formats == {"console", "csv", "json"}

\* the sections of the console report that show percentages of total_count
PercentSections == <<"by_label", "by_assignee", "by_author", "labels_combinations">>

\* _print_console_report: the sections printed, in order; a percentage
\* section of an analysis whose total_count is 0 divides by zero
PrintConsole(a) ==
    LET shown(name) == IF a[name] # <<>> THEN <<name>> ELSE <<>>
        sections == <<"summary">> \o shown("by_label") \o shown("by_assignee")
                    \o shown("by_author") \o shown("by_month")
                    \o shown("labels_combinations")
        divides == \E i \in 1..Len(PercentSections) : a[PercentSections[i]] # <<>>
    IN IF divides /\ a.total_count = 0
       THEN [format |-> "console", raised |-> TRUE, sections |-> <<"summary">>,
             rows |-> 0, path |-> <<>>]
       ELSE [format |-> "console", raised |-> FALSE, sections |-> sections,
             rows |-> 0, path |-> <<>>]

\* _export_csv_report: one row per entry of issues_detail, returns the file name
ExportCsv(a) ==
    [format |-> "csv", raised |-> FALSE, sections |-> <<>>,
     rows |-> Len(a.issues_detail), path |-> <<"csv">>]

\* the type of the keys of each dict of the summary, as analyze_issues builds them
KeyTypes ==
    [by_label |-> "str", by_assignee |-> "str", by_author |-> "str",
     by_month |-> "str", by_week |-> "str", labels_combinations |-> "tuple"]

\* the order in which json.dump writes the dicts of 'summary'
SummaryOrder ==
    <<"by_label", "by_assignee", "by_author", "by_month", "by_week", "labels_combinations">>

\* the key types json.dump accepts
JsonKeyTypes == {"str", "int", "float", "bool", "None"}

\* _export_json_report: json.dump writes the document piece by piece and
\* raises TypeError at the first dict key that is not of a JSON key type;
\* the file then ends inside 'summary' and no path is returned
ExportJson(a) ==
    LET bad == {i \in 1..Len(SummaryOrder) :
                   /\ a[SummaryOrder[i]] # <<>>
                   /\ KeyTypes[SummaryOrder[i]] \notin JsonKeyTypes}
    IN IF bad # {}
       THEN [format |-> "json", raised |-> TRUE, sections |-> <<"metadata">>,
             rows |-> 0, path |-> <<>>]
       ELSE [format |-> "json", raised |-> FALSE,
             sections |-> <<"metadata", "summary", "issues">>,
             rows |-> Len(a.issues_detail), path |-> <<"json">>]

generate_report(a, output_format) ==
    CASE output_format = "console" -> PrintConsole(a)
      [] output_format = "csv" -> ExportCsv(a)
      [] output_format = "json" -> ExportJson(a)

---------------------------------------------------------------------------
(* get_closed_issues called on its own, for every since, until and state *)

\* the creator before it is started
CreatorIdle ==
    /\ cargs = <<>>
    /\ cpc = "idle"
    /\ dry_run = TRUE
    /\ existing_titles = {}
    /\ cpage = 1
    /\ line_no = 1
    /\ remote = <<>>
    /\ gets = 0
    /\ posts = <<>>

\* the times that have an earlier and a later time in the model
InnerTimes == {t \in Times : \E a, b \in Times : a < t /\ t < b}

NoArgs == [token |-> TRUE, since |-> <<>>, until |-> <<>>, days |-> 0, format |-> "console"]

InitFetch ==
    /\ args = NoArgs
    /\ pc = "fetching"
    /\ outcome = "running"
    /\ since_date \in Times
    /\ until_date \in {<<>>} \cup {<<t>> : t \in InnerTimes}
    /\ page = 1
    /\ issues = <<>>
    /\ page_issues = <<>>
    /\ requests = 0
    /\ stop = "none"
    /\ reached = 0
    /\ analysis = <<>>
    /\ report = <<>>
    /\ listing = <<>>
    /\ CreatorIdle

NextFetch == FetchPage(FetchRecords, "all")

SpecFetch == InitFetch /\ [][NextFetch]_vars

---------------------------------------------------------------------------
(* main of the analyzer.  A --since/--until value "YYYY-MM-DD" is <<day>>; *)
(* <<>> is an option that was not given; a value strptime refuses is a     *)
(* tuple whose day is no natural number.                                   *)

BadDate == <<-1>>
DateArgs == {<<>>, BadDate} \cup {<<d>> : d \in Days}

\* datetime.now(), the last second of the model's calendar
Now == (Cardinality(Days) * DayLen) - 1

\* values of --days
DaysBack == {1}

\* datetime.strptime(s, '%Y-%m-%d') succeeds
ValidDate(s) == Len(s) = 1 /\ s[1] \in Nat

\* lines 365-372
ParseSince(a) ==
    IF a.since # <<>>
    THEN IF ValidDate(a.since)
         THEN [error |-> FALSE, value |-> a.since[1] * DayLen]
         ELSE [error |-> TRUE, value |-> 0]
    ELSE [error |-> FALSE, value |-> Now - a.days * DayLen]

\* lines 374-381 with the ValueError swallowed
ParseUntilLenient(a) ==
    IF a.until # <<>> /\ ValidDate(a.until)
    THEN [error |-> FALSE, value |-> <<a.until[1] * DayLen + (DayLen - 1)>>]
    ELSE [error |-> FALSE, value |-> <<>>]

\* lines 374-381: the end of the day of --until
ParseUntil(a) ==
    IF a.until # <<>>
    THEN IF ValidDate(a.until)
         THEN [error |-> FALSE, value |-> <<a.until[1] * DayLen + (DayLen - 1)>>]
         ELSE [error |-> TRUE, value |-> <<>>]
    ELSE [error |-> FALSE, value |-> <<>>]

\* lines 357-399: validation of the token and the dates, up to the fetch
Main ==
    /\ pc = "main"
    /\ LET s == ParseSince(args)
           u == ParseUntil(args)
       IN IF ~args.token \/ s.error \/ u.error
          THEN /\ pc' = "exit"
               /\ outcome' = "config_error"
               /\ UNCHANGED <<since_date, until_date>>
          ELSE /\ pc' = "fetching"
               /\ since_date' = s.value
               /\ until_date' = u.value
               /\ UNCHANGED outcome
    /\ UNCHANGED <<args, page, issues, page_issues, requests, stop, reached,
                   analysis, report>>
    /\ UNCHANGED <<listing, creatorVars>>

\* main without the early return on an empty list
NoIssuesFoundNever(list) == FALSE

\* line 402: if not issues
NoIssuesFound(list) == list = <<>>

\* lines 400-408: get_closed_issues has returned
MainReport ==
    /\ pc = "fetched"
    /\ pc' = "exit"
    /\ IF NoIssuesFound(issues)
       THEN /\ outcome' = "no_issues"
            /\ UNCHANGED <<analysis, report>>
       ELSE /\ analysis' = analyze_issues(issues)
            /\ report' = generate_report(analysis', args.format)
            /\ outcome' = IF report'.raised THEN "error" ELSE "reported"
    /\ UNCHANGED <<args, since_date, until_date, page, issues, page_issues,
                   requests, stop, reached>>
    /\ UNCHANGED <<listing, creatorVars>>

\* lines 410-412: an exception out of get_closed_issues
MainExcept ==
    /\ pc = "raised"
    /\ pc' = "exit"
    /\ outcome' = "error"
    /\ UNCHANGED <<args, since_date, until_date, page, issues, page_issues,
                   requests, stop, reached, analysis, report>>
    /\ UNCHANGED <<listing, creatorVars>>

\* the records main's fetch is fed with: issues closed on either day or with
\* a malformed closing timestamp, with and without a label
MainRecords ==
    {r \in IssueRecords({<<>>, <<"bug">>}, {<<>>}, {"alice"}, {<<0, 0>>}) :
        /\ ~r.pull_request
        /\ r.closed_at \in {<<0, 1>>, <<1, 0>>, MalformedStamp}}

Init ==
    /\ args \in {a \in [token : BOOLEAN, since : DateArgs, until : DateArgs,
                        days : DaysBack, format : Formats] :
                    a.since # <<>> => a.days = 1}
    /\ pc = "main"
    /\ outcome = "running"
    /\ since_date = 0
    /\ until_date = <<>>
    /\ page = 1
    /\ issues = <<>>
    /\ page_issues = <<>>
    /\ requests = 0
    /\ stop = "none"
    /\ reached = 0
    /\ analysis = <<>>
    /\ report = <<>>
    /\ listing = <<>>
    /\ CreatorIdle

Next ==
    \/ Main
    \/ FetchPage(MainRecords, "closed")
    \/ MainReport
    \/ MainExcept

Spec == Init /\ [][Next]_vars

---------------------------------------------------------------------------
(* Properties of get_closed_issues *)

\* the closing time a record carries, read off the wire value
ClosingTime(r) == r.closed_at[1] * DayLen + r.closed_at[2]

\* a record that carries a closing timestamp strptime accepts
HasClosingTime(r) ==
    /\ r.closed_at # Null
    /\ Len(r.closed_at) = 2
    /\ r.closed_at[1] \in Days
    /\ r.closed_at[2] \in Seconds

\* a record that passes the filter of the fetch
Qualifies(r) ==
    /\ ~r.pull_request
    /\ HasClosingTime(r)
    /\ since_date <= ClosingTime(r)
    /\ (until_date # <<>> => ClosingTime(r) <= until_date[1])

C2_StopsAfterOldPage ==
    [][ /\ ( /\ page' = page + 1
             /\ stop' # "raise"
             /\ HasClosingTime(page_issues'[Len(page_issues')])
             /\ ClosingTime(page_issues'[Len(page_issues')]) < since_date )
           => /\ stop' = "older"
              /\ pc' = "fetched"
              /\ requests' = page
              /\ issues' = issues \o SelectSeq(page_issues', Qualifies)
        /\ (requests' = requests + 1 /\ page_issues' = <<>> /\ stop' # "status")
           => /\ stop' = "empty"
              /\ pc' = "fetched"
              /\ issues' = issues
        /\ stop \in {"older", "empty"} => requests' = requests /\ issues' = issues
      ]_vars

\* C2 witness: the second page ended the loop on an old last record and
\* records accepted from it are in the result
C2_Witness ==
    /\ pc = "fetched"
    /\ stop = "older"
    /\ requests = 2
    /\ \E i \in 1..Len(page_issues) : Qualifies(page_issues[i])
    /\ Len(issues) >= 1

\* C4: a closed record whose closing timestamp is missing or malformed is
\* dropped and nothing else: the for loop reaches every record of its page
\* and the fetch does not end in an exception.
C4_BadStampDropped ==
    (\E i \in 1..Len(page_issues) :
        /\ page_issues[i].state = "closed"
        /\ ~HasClosingTime(page_issues[i]))
    => /\ stop # "raise"
       /\ reached = Len(page_issues)

---------------------------------------------------------------------------
(* Properties of the analyzer's main *)

\* C3: after a non-200 response the fetch has stopped with the issues of the
\* earlier pages, and the finished run has aggregated and rendered that
\* partial set.  Stated for a partial set that holds issues; with none the
\* run ends at the no-issues notice (C7).
C3_PartialSetReported ==
    (stop = "status" /\ pc = "exit" /\ issues # <<>>)
    => /\ outcome = "reported"
       /\ analysis # <<>>
       /\ analysis.total_count = Len(issues)
       /\ ~report.raised

\* a configuration error of the command line
ConfigError ==
    \/ ~args.token
    \/ (args.since # <<>> /\ args.since[1] < 0)
    \/ (args.until # <<>> /\ args.until[1] < 0)

\* C7 as claimed: when no issue matched, the finished console run holds an
\* Analysis with total_count 0 and avg_days_to_close 0 and has printed the
\* summary section and nothing else.
C7_EmptyReportPrinted ==
    (pc = "exit" /\ ~ConfigError /\ stop \in {"empty", "older"} /\ issues = <<>>
        /\ args.format = "console")
    => /\ analysis # <<>>
       /\ analysis.total_count = 0
       /\ analysis.avg_days_to_close = 0
       /\ report # <<>>
       /\ report.sections = <<"summary">>

\* C7 amended: when no issue matched, the run ends with the no-issues notice:
\* analyze_issues and generate_report are not called, so there is no
\* Analysis, no report section and no division by total_count.
C7_EmptyRunEndsWithNotice ==
    (pc = "exit" /\ ~ConfigError /\ stop \in {"empty", "older"} /\ issues = <<>>)
    => /\ outcome = "no_issues"
       /\ analysis = <<>>
       /\ report = <<>>
    /\ listing = <<>>

\* C7 witness: a console run whose pages held records, none of them in the
\* window, has ended
C7_Witness ==
    /\ pc = "exit"
    /\ args.format = "console"
    /\ stop \in {"empty", "older"}
    /\ requests = 2
    /\ page_issues # <<>>
    /\ issues = <<>>
    /\ outcome = "no_issues"

\* C8: with a missing token or an invalid --since or --until no request is
\* ever issued and nothing is aggregated or reported.
C8_ConfigErrorBeforeNetwork ==
    ConfigError
    => /\ requests = 0
       /\ analysis = <<>>
       /\ report = <<>>
    /\ listing = <<>>
       /\ pc \in {"main", "exit"}
       /\ outcome \in {"running", "config_error"}

\* C8 witness: a run with a token, a valid --since and an invalid --until
\* has ended
C8_Witness ==
    /\ pc = "exit"
    /\ outcome = "config_error"
    /\ args.token
    /\ args.since # <<>>
    /\ args.since # BadDate
    /\ args.until = BadDate

---------------------------------------------------------------------------
(* analyze_issues and generate_report called on their own, for every list  *)
(* of closed issues with well-formed timestamps of at most MaxIssues       *)

MaxIssues == 2

AnalyzeRecords ==
    {r \in IssueRecords({<<>>, <<"bug">>, <<"bug", "ui">>, <<"ui", "bug">>},
                        {<<>>, <<"alice">>, <<"alice", "bob">>},
                        Logins, {<<0, 0>>}) :
        /\ ~r.pull_request
        /\ r.closed_at \in {<<0, 1>>, <<1, 0>>}}

InitAnalyze ==
    /\ args = NoArgs
    /\ pc = "analyze"
    /\ outcome = "running"
    /\ since_date = 0
    /\ until_date = <<>>
    /\ page = 1
    /\ issues \in SeqsUpTo(AnalyzeRecords, MaxIssues)
    /\ page_issues = <<>>
    /\ requests = 0
    /\ stop = "none"
    /\ reached = 0
    /\ analysis = <<>>
    /\ report = <<>>
    /\ listing = <<>>
    /\ CreatorIdle

\* analysis = analyzer.analyze_issues(issues)
Analyze ==
    /\ pc = "analyze"
    /\ pc' = "analyzed"
    /\ analysis' = analyze_issues(issues)
    /\ UNCHANGED <<args, outcome, since_date, until_date, page, issues,
                   page_issues, requests, stop, reached, report>>
    /\ UNCHANGED <<listing, creatorVars>>

\* analyzer.generate_report(analysis, output_format)
Render ==
    /\ pc = "analyzed"
    /\ pc' = "rendered"
    /\ \E output_format \in Formats : report' = generate_report(analysis, output_format)
    /\ UNCHANGED <<args, outcome, since_date, until_date, page, issues,
                   page_issues, requests, stop, reached, analysis>>
    /\ UNCHANGED <<listing, creatorVars>>

NextAnalyze == Analyze \/ Render

SpecAnalyze == InitAnalyze /\ [][NextAnalyze]_vars

---------------------------------------------------------------------------
(* Properties of analyze_issues and generate_report *)

RECURSIVE SumValues(_)
SumValues(d) ==
    IF DOMAIN d = {} THEN 0
    ELSE LET k == CHOOSE x \in DOMAIN d : TRUE
         IN d[k] + SumValues([x \in DOMAIN d \ {k} |-> d[x]])

\* the count a dict holds for a key, 0 for a key it does not hold
CountOf(d, k) == IF k \in DOMAIN d THEN d[k] ELSE 0

\* the units issue i owes to the by_assignee bucket k
AssigneeUnits(i, k) ==
    IF issues[i].assignees = <<>>
    THEN IF k = "unassigned" THEN 1 ELSE 0
    ELSE Cardinality({j \in 1..Len(issues[i].assignees) : issues[i].assignees[j] = k})

RECURSIVE SumOver(_, _)
SumOver(n, k) == IF n = 0 THEN 0 ELSE AssigneeUnits(n, k) + SumOver(n - 1, k)

\* C5: total_count is the length of the input and of issues_detail; every
\* issue is counted once in by_author, under its author; every issue is
\* counted in by_assignee once per assignee, or once under "unassigned" when
\* it has none.
C5_AggregationTotals ==
    analysis # <<>>
    => /\ analysis.total_count = Len(issues)
       /\ Len(analysis.issues_detail) = Len(issues)
       /\ SumValues(analysis.by_author) = analysis.total_count
       /\ \A u \in Logins :
            CountOf(analysis.by_author, u)
              = Cardinality({i \in 1..Len(issues) : issues[i].user = u})
       /\ \A k \in Logins \cup {"unassigned"} :
            CountOf(analysis.by_assignee, k) = SumOver(Len(issues), k)
       /\ DOMAIN analysis.by_assignee \subseteq Logins \cup {"unassigned"}
       /\ SumValues(analysis.by_assignee) >= Len(issues)

\* C5 witness: two issues were analyzed, one without assignees and one with two
C5_Witness ==
    /\ pc = "analyzed"
    /\ Len(issues) = 2
    /\ issues[1].assignees = <<>>
    /\ Len(issues[2].assignees) = 2
    /\ issues[1].user # issues[2].user

\* C6: every issue is counted once in labels_combinations, under the sorted
\* tuple of its labels, the empty tuple when it has none.
C6_EveryIssueInOneCombination ==
    analysis # <<>>
    => /\ SumValues(analysis.labels_combinations) = analysis.total_count
       /\ \A i \in 1..Len(issues) :
            Sorted(issues[i].labels) \in DOMAIN analysis.labels_combinations

\* C9: generate_report with format json returns the path of a complete
\* document with the sections metadata, summary and issues.
C9_JsonReportWritten ==
    (pc = "rendered" /\ report.format = "json")
    => /\ ~report.raised
       /\ report.sections = <<"metadata", "summary", "issues">>
       /\ report.path # <<>>

---------------------------------------------------------------------------
(* The issue creator.  A text (a title, a line of the input file) is the   *)
(* record of its letters read without case (name), whether it holds upper  *)
(* case letters (caps) and whether white space surrounds it (pad).         *)

MaxLines == 2

\* str.strip()
Strip(t) == [t EXCEPT !.pad = FALSE]

\* str.lower()
Lower(t) == [t EXCEPT !.caps = FALSE]

Text(n, c, w) == [name |-> n, caps |-> c, pad |-> w]

\* the lines of the input file, each with its line end
LineKinds == {Text("", FALSE, TRUE), Text("a", FALSE, TRUE), Text("a", TRUE, TRUE),
              Text("b", FALSE, TRUE)}

\* titles of the issues open before the run
OpenTitles == {Text("a", FALSE, FALSE), Text("a", TRUE, FALSE)}

\* listings of the open issues before the run: each title at most once
Listings == {q \in SeqsUpTo(OpenTitles, Cardinality(OpenTitles)) :
                Cardinality(Range(q)) = Len(q)}

\* per_page=100 in the listing URL, scaled down
listing_per_page == 1

\* title_format.format(item): the template adds its own letters, which are
\* upper case letters for the template "Upper"
Format(template, item) ==
    [name |-> item.name, caps |-> item.caps \/ template = "Upper", pad |-> item.pad]

Flags == {"none", "--dry-run", "--no-dry-run"}

\* lines 127-130: store_true, store_false and set_defaults(dry_run=True)
ParseDryRun(flag) == flag # "--no-dry-run"

\* lines 132-179: the config file and the input file are checked (exit(1)),
\* then the token (return)
CreatorMain ==
    /\ cpc = "main"
    /\ dry_run' = ParseDryRun(cargs.flag)
    /\ cpc' = IF ~cargs.config_ok THEN "exit1"
              ELSE IF ~cargs.token THEN "exit"
              ELSE "listing"
    /\ UNCHANGED <<cargs, existing_titles, cpage, line_no, remote, gets, posts>>
    /\ UNCHANGED analyzerVars

\* the page of the listing the server sends for page number p
ListingPage(p) ==
    LET first == (p - 1) * listing_per_page + 1
        last == IF p * listing_per_page < Len(remote)
                THEN p * listing_per_page ELSE Len(remote)
    IN SubSeq(remote, first, last)

\* lines 66-77: one iteration of the while loop of get_existing_issue_titles
GetTitlesPage ==
    /\ cpc = "listing"
    /\ gets' = gets + 1
    /\ \/ \* a response whose status is not 200
          /\ cpc' = "creating"
          /\ UNCHANGED <<existing_titles, cpage>>
       \/ \* 200
          LET found == ListingPage(cpage)
          IN IF found = <<>>
             THEN /\ cpc' = "creating"
                  /\ UNCHANGED <<existing_titles, cpage>>
             ELSE /\ existing_titles' =
                        existing_titles \cup {Lower(Strip(t)) : t \in Range(found)}
                  /\ cpage' = cpage + 1
                  /\ UNCHANGED cpc
    /\ UNCHANGED <<cargs, dry_run, line_no, remote, posts>>
    /\ UNCHANGED analyzerVars

\* create_issue with the dry run test left out
ReachesPostAlways(title_key, existing, dry) == title_key \notin existing

\* lines 85-113: create_issue gets to requests.post
ReachesPost(title_key, existing, dry) == title_key \notin existing /\ ~dry

\* lines 183-187 and 80-121: the next line of the input file and, for a line
\* that is not blank, create_issue
CreateIssue ==
    /\ cpc = "creating"
    /\ line_no <= Len(cargs.lines)
    /\ line_no' = line_no + 1
    /\ LET item == Strip(cargs.lines[line_no])
           issue_title == Format(cargs.template, item)
           title_key == Lower(issue_title)
       IN IF item.name # "" /\ ReachesPost(title_key, existing_titles, dry_run)
          THEN /\ posts' = Append(posts, issue_title)
               /\ \/ remote' = Append(remote, issue_title)    \* 201
                  \/ UNCHANGED remote                         \* any other status
          ELSE UNCHANGED <<posts, remote>>
    /\ UNCHANGED <<cargs, cpc, dry_run, existing_titles, cpage, gets>>
    /\ UNCHANGED analyzerVars

\* the end of the input file
CreatorExit ==
    /\ cpc = "creating"
    /\ line_no > Len(cargs.lines)
    /\ cpc' = "exit"
    /\ UNCHANGED <<cargs, dry_run, existing_titles, cpage, line_no, remote, gets, posts>>
    /\ UNCHANGED analyzerVars

\* the analyzer while the creator runs
AnalyzerIdle ==
    /\ args = NoArgs
    /\ pc = "idle"
    /\ outcome = "running"
    /\ since_date = 0
    /\ until_date = <<>>
    /\ page = 1
    /\ issues = <<>>
    /\ page_issues = <<>>
    /\ requests = 0
    /\ stop = "none"
    /\ reached = 0
    /\ analysis = <<>>
    /\ report = <<>>
    /\ listing = <<>>

InitCreator ==
    /\ cargs \in [flag : Flags, config_ok : BOOLEAN, token : BOOLEAN,
                  template : {"lower", "Upper"},
                  lines : SeqsUpTo(LineKinds, MaxLines)]
    /\ cpc = "main"
    /\ dry_run = TRUE
    /\ existing_titles = {}
    /\ cpage = 1
    /\ line_no = 1
    /\ remote \in Listings
    /\ gets = 0
    /\ posts = <<>>
    /\ AnalyzerIdle

NextCreator ==
    \/ CreatorMain
    \/ GetTitlesPage
    \/ CreateIssue
    \/ CreatorExit

SpecCreator == InitCreator /\ [][NextCreator]_vars

---------------------------------------------------------------------------
(* Properties of the issue creator *)

\* C10: unless --no-dry-run was given no POST request is issued and the
\* open issues of the repository stay as they were.
C10_DryRunNeverPosts ==
    [][cargs.flag # "--no-dry-run" => posts' = <<>> /\ remote' = remote]_vars

\* C10 witness: a run without any dry run option has gone through an input
\* file with a line whose title is not among the existing titles
C10_Witness ==
    /\ cpc = "exit"
    /\ cargs.flag = "none"
    /\ line_no > Len(cargs.lines)
    /\ \E i \in 1..Len(cargs.lines) :
          /\ cargs.lines[i].name # ""
          /\ Lower(Format(cargs.template, Strip(cargs.lines[i]))) \notin existing_titles

\* the titles of the open issues, read without case and surrounding space
OpenKeys == {Lower(Strip(t)) : t \in Range(remote)}

\* C11: in a run with --no-dry-run no POST is issued for a title that equals,
\* ignoring case, the title of an issue open at that moment, be it open
\* since before the run or created earlier in the run, and also when the
\* listing of the existing issues ended on a response that is not 200.
C11_NoDuplicatePost ==
    [][(cargs # <<>> /\ cargs.flag = "--no-dry-run" /\ posts' # posts)
         => Lower(Strip(posts'[Len(posts')])) \notin OpenKeys]_vars


\* ---------------------------------------------------------------------------
\* get_closed_issues against a listing that is fixed before the first request
\* ---------------------------------------------------------------------------

MaxListing == 3

\* the records of a listing asked with state=closed whose closing timestamps,
\* where present, are timestamps strptime accepts
ListedRecords ==
    {r \in ServerRecords(FetchRecords, "closed") :
        Truthy(r.closed_at) => WellFormed(r.closed_at)}

\* sort=updated, direction=desc read as in the successive records' closing
\* timestamps: no record closes later than a record before it
NonIncreasing(l) ==
    \A i, j \in 1..Len(l) :
        (i < j /\ Truthy(l[i].closed_at) /\ Truthy(l[j].closed_at))
            => Strptime(l[i].closed_at) >= Strptime(l[j].closed_at)

SortedListings == {l \in SeqsUpTo(ListedRecords, MaxListing) : NonIncreasing(l)}

\* what the server answers for the parameter page=p: the p-th run of per_page
\* records of the listing, the empty list beyond its end
ListedPage(l, p) ==
    LET first == (p - 1) * per_page + 1
        last == IF p * per_page < Len(l) THEN p * per_page ELSE Len(l)
    IN SubSeq(l, first, last)

\* one iteration of the while loop when every response is a 200 that carries
\* the page of the listing asked for
FetchListed ==
    /\ pc = "fetching"
    /\ requests' = requests + 1
    /\ LET body == ListedPage(listing, page)
       IN IF body = <<>>
          THEN /\ stop' = "empty"
               /\ pc' = "fetched"
               /\ page_issues' = <<>>
               /\ reached' = 0
               /\ UNCHANGED <<page, issues>>
          ELSE LET r == FilterLoop(body, since_date, until_date, <<>>, 0)
                   after == IF r.raised THEN "raise" ELSE LastCheck(body, since_date)
               IN /\ page_issues' = body
                  /\ reached' = r.examined
                  /\ issues' = issues \o r.accepted
                  /\ page' = IF r.raised THEN page ELSE page + 1
                  /\ stop' = CASE after = "raise" -> "raise"
                               [] after = "break" -> "older"
                               [] OTHER -> "none"
                  /\ pc' = CASE after = "raise" -> "raised"
                             [] after = "break" -> "fetched"
                             [] OTHER -> "fetching"
    /\ UNCHANGED <<args, outcome, since_date, until_date, analysis, report>>
    /\ UNCHANGED <<listing, creatorVars>>

InitListing ==
    /\ args = NoArgs
    /\ pc = "fetching"
    /\ outcome = "running"
    /\ since_date \in Times
    /\ until_date \in {<<>>} \cup {<<t>> : t \in InnerTimes}
    /\ page = 1
    /\ issues = <<>>
    /\ page_issues = <<>>
    /\ requests = 0
    /\ stop = "none"
    /\ reached = 0
    /\ analysis = <<>>
    /\ report = <<>>
    /\ listing \in SortedListings
    /\ CreatorIdle

NextListing == FetchListed

\* the loop is sequential code and every request is answered, so an iteration
\* that can run does run
SpecListing == InitListing /\ [][NextListing]_vars /\ WF_vars(NextListing)

\* the pages of the listing the fetch has not asked for hold a record
Unrequested == Len(listing) > requests * per_page

\* C12: when every response succeeds and the listing is in non-increasing
\* order of closing timestamp, get_closed_issues terminates, and what it has
\* returned is every record of the whole listing that passes the filter, in
\* the listing's order, the pages it never asked for included.
C12_SortedListingComplete ==
    <>[](/\ pc = "fetched"
         /\ stop \in {"empty", "older"}
         /\ issues = SelectSeq(listing, Qualifies))

\* C12 witness: the fetch has stopped early on a page that held a returned
\* issue, leaving on a page it never asked for an issue of the listing that
\* carries a closing timestamp
C12_Witness ==
    /\ pc = "fetched"
    /\ stop = "older"
    /\ issues # <<>>
    /\ Unrequested
    /\ Truthy(listing[Len(listing)].closed_at)
    /\ ~listing[Len(listing)].pull_request

====
